---- MODULE Spec2Model ----
(***************************************************************************)
(* Model of the broker service's request pipeline (cmd/broker main and the *)
(* metric and request packages).  Strings that the code transforms (metric *)
(* names, methods, paths, CACHE_SIZE) are sequences of one-character       *)
(* strings, so that normalisation and parsing are computed, not assumed.   *)
(***************************************************************************)
EXTENDS Integers, Sequences, FiniteSets, TLC

(* ------------------------------------------------------------------ *)
(* Bounds of the model                                                  *)
(* ------------------------------------------------------------------ *)

\* Number of requests accepted by the listener in one behaviour: of one
\* client served concurrently, of several clients served concurrently, and
\* of requests served one by one.
MaxArrivals == 2
MaxClientArrivals == 3
MaxSeqArrivals == 4

\* Number of requests accepted when every method and path is tried.
MaxKeyArrivals == 2

\* In-flight request slots (goroutines serving a connection each).
Reqs == {1, 2}

\* Client addresses (c.IP()).
IpA == "ipA"
IpB == "ipB"
IpC == "ipC"
IPs == {IpA, IpB, IpC}

(* ------------------------------------------------------------------ *)
(* Strings                                                              *)
(* ------------------------------------------------------------------ *)

Letters ==
  {"a","b","c","d","e","f","g","h","i","j","k","l","m","n","o","p","q","r",
   "s","t","u","v","w","x","y","z",
   "A","B","C","D","E","F","G","H","I","J","K","L","M","N","O","P","Q","R",
   "S","T","U","V","W","X","Y","Z"}

Digits == {"0","1","2","3","4","5","6","7","8","9"}

DigitVal(c) ==
  CASE c = "0" -> 0 [] c = "1" -> 1 [] c = "2" -> 2 [] c = "3" -> 3
    [] c = "4" -> 4 [] c = "5" -> 5 [] c = "6" -> 6 [] c = "7" -> 7
    [] c = "8" -> 8 [] c = "9" -> 9

MethodGet == <<"G","E","T">>
MethodHead == <<"H","E","A","D">>
MethodPost == <<"P","O","S","T">>

PathRoot == <<"/">>
PathMetrics == <<"/","m","e","t","r","i","c","s">>
PathHealth == <<"/","h","e","a","l","t","h">>
\* a path no route is registered for
PathHealth1 == <<"/","h","e","a","l","t","h","1">>

HttpRequestCountMetricName ==
  <<"h","t","t","p","_","r","e","q","u","e","s","t","_","c","o","u","n","t">>
HttpRequestDurationMetricName ==
  <<"h","t","t","p","_","r","e","q","u","e","s","t","_",
    "d","u","r","a","t","i","o","n","_","m","s">>
HttpRequestDurationMicroMetricName ==
  <<"h","t","t","p","_","r","e","q","u","e","s","t","_",
    "d","u","r","a","t","i","o","n","_","m","i","c","r","o">>

\* fmt.Sprintf("%s_%s", a, b)
Sprintf2(a, b) == a \o <<"_">> \o b

\* mutant: the expression lacks the range a-z
AllowedCharMutUpper(c) ==
  c \in {"_","A","B","C","D","E","F","G","H","I","J","K","L","M",
         "N","O","P","Q","R","S","T","U","V","W","X","Y","Z"}

\* mutant: the expression keeps digits too
AllowedCharMutDigits(c) == c = "_" \/ c \in Letters \/ c \in Digits

\* metricNameRegex "[^_A-Za-z]+" : the characters the regexp does not match
AllowedChar(c) == c = "_" \/ c \in Letters

\* metricNameRegex.ReplaceAllString(s, "")
ReplaceAllString(s) == SelectSeq(s, AllowedChar)

\* GetMetricName(ctx): the request's method and path, normalised
GetMetricName(method, path) == ReplaceAllString(Sprintf2(method, path))

(* ------------------------------------------------------------------ *)
(* Route table                                                          *)
(* ------------------------------------------------------------------ *)

\* Requests of one client: the two handler routes, a path and a method
\* that have no handler.
RouteInputs ==
  { [method |-> MethodGet,  path |-> PathHealth,  ip |-> IpA],
    [method |-> MethodGet,  path |-> PathMetrics, ip |-> IpA],
    [method |-> MethodGet,  path |-> PathHealth1, ip |-> IpA],
    [method |-> MethodPost, path |-> PathHealth,  ip |-> IpA] }

\* Requests of every client to /health.
ClientInputs == { [method |-> MethodGet, path |-> PathHealth, ip |-> ip] : ip \in IPs }

Inputs == RouteInputs \cup ClientInputs

\* a path with characters of every class: digits, '-', '_', '.', both cases
PathOdd == <<"/","v","2","/","a","-","b","_","C",".","9">>

\* Requests of one client with every method to every path.
KeyInputs ==
  { [method |-> m, path |-> p, ip |-> IpA] :
      m \in {MethodGet, MethodHead, MethodPost},
      p \in {PathRoot, PathMetrics, PathHealth, PathHealth1, PathOdd} }

\* Methods the router keeps a stack for (the modelled part of fiber's list).
RequestMethods == <<MethodGet, MethodHead, MethodPost>>

\* app.Get(path, h): fiber registers the handler for HEAD and for GET.
GetRoute(path) ==
  << [Method |-> MethodHead, Path |-> path, use |-> FALSE],
     [Method |-> MethodGet,  Path |-> path, use |-> FALSE] >>

\* app.Use(h) ... app.Use(h): consecutive middleware of the same prefix are
\* one route per method, with path "/".
UseRoutes ==
  [i \in 1..Len(RequestMethods) |->
     [Method |-> RequestMethods[i], Path |-> PathRoot, use |-> TRUE]]

\* app.GetRoutes() after main has bound everything, in registration order.
Routes == GetRoute(PathMetrics) \o UseRoutes \o GetRoute(PathHealth)

\* The handler (not middleware) routes, as <<method, path>>.
HandlerRoutes ==
  { <<Routes[i].Method, Routes[i].Path>> : i \in {j \in 1..Len(Routes) : ~Routes[j].use} }

\* A handler (not middleware) route for rpath matches the request.
MatchesRoute(method, path, rpath) ==
  /\ path = rpath
  /\ \E i \in 1..Len(Routes) :
       ~Routes[i].use /\ Routes[i].Method = method /\ Routes[i].Path = rpath

(* ------------------------------------------------------------------ *)
(* metric.MetricPublisher                                               *)
(* ------------------------------------------------------------------ *)

EmptyMap == [k \in {} |-> 0]

\* m[k] = v  (Go map assignment: insert or overwrite)
MapSet(m, k, v) == [x \in (DOMAIN m) \cup {k} |-> IF x = k THEN v ELSE m[x]]

\* delete(m, k)
MapDelete(m, k) == [x \in (DOMAIN m) \ {k} |-> m[x]]

NewCounterMetric == [kind |-> "counter", n |-> 0]
NewHistogramMetric == [kind |-> "histogram", n |-> 0]

InsertCounter(mm, metricName) == MapSet(mm, metricName, NewCounterMetric)

InsertHistogram(mm, metricName) == MapSet(mm, metricName, NewHistogramMetric)

\* the normalised "<method>_<path>" of route i
RoutePostfix(i) == ReplaceAllString(Routes[i].Method \o <<"_">> \o Routes[i].Path)

\* one iteration of Initialize's loop
InitializeRoute(mm, i) ==
  InsertHistogram(
    InsertCounter(mm, Sprintf2(HttpRequestCountMetricName, RoutePostfix(i))),
    Sprintf2(HttpRequestDurationMetricName, RoutePostfix(i)))

RECURSIVE InitializeLoop(_, _)
InitializeLoop(mm, i) ==
  IF i > Len(Routes) THEN mm ELSE InitializeLoop(InitializeRoute(mm, i), i + 1)

\* promauto panics when a name is registered twice
DuplicateRegistration ==
  \E i, j \in 1..Len(Routes) : i < j /\ RoutePostfix(i) = RoutePostfix(j)

\* mutant: an unknown key is registered on first use
PublishCounterMutInsert(mm, prefix, method, path) ==
  LET key == Sprintf2(prefix, GetMetricName(method, path)) IN
    IF key \notin DOMAIN mm THEN MapSet(mm, key, [kind |-> "counter", n |-> 1])
    ELSE [mm EXCEPT ![key].n = @ + 1]

\* PublishCounter(prefix, ctx) on the map mm
PublishCounter(mm, prefix, method, path) ==
  LET key == Sprintf2(prefix, GetMetricName(method, path)) IN
    IF key \notin DOMAIN mm THEN mm
    ELSE [mm EXCEPT ![key].n = @ + 1]

\* GetHistogram(prefix, ctx, value) on the map mm
GetHistogram(mm, prefix, method, path) ==
  LET key == Sprintf2(prefix, GetMetricName(method, path)) IN
    IF key \notin DOMAIN mm THEN mm
    ELSE [mm EXCEPT ![key].n = @ + 1]

\* PublishHistogram, as main calls it
PublishHistogram(mm, prefix, method, path) == GetHistogram(mm, prefix, method, path)

(* ------------------------------------------------------------------ *)
(* CACHE_SIZE                                                           *)
(* ------------------------------------------------------------------ *)

RECURSIVE ParseDigits(_, _)
ParseDigits(s, acc) ==
  IF s = << >> THEN acc ELSE ParseDigits(Tail(s), 10 * acc + DigitVal(Head(s)))

AllDigits(s) == s # << >> /\ \A i \in 1..Len(s) : s[i] \in Digits

\* strconv.ParseInt(s, 10, 64) with the error dropped: 0 when s is no number
ParseInt(s) ==
  IF AllDigits(s) THEN ParseDigits(s, 0)
  ELSE IF s # << >> /\ Head(s) = "-" /\ AllDigits(Tail(s)) THEN 0 - ParseDigits(Tail(s), 0)
  ELSE IF s # << >> /\ Head(s) = "+" /\ AllDigits(Tail(s)) THEN ParseDigits(Tail(s), 0)
  ELSE 0

DefaultCacheSize == 100

\* main's cacheSize from os.Getenv("CACHE_SIZE")
CacheSizeOf(cacheSizeStr) ==
  IF cacheSizeStr # << >> THEN ParseInt(cacheSizeStr) ELSE DefaultCacheSize

\* values of CACHE_SIZE the model starts with
CacheSizeEnv == { << >>, <<"1">>, <<"2">>, <<"0">>, <<"-","1">>, <<"x">> }

(* ------------------------------------------------------------------ *)
(* State                                                                *)
(* ------------------------------------------------------------------ *)

VARIABLES
  cacheSizeStr,  \* os.Getenv("CACHE_SIZE")
  evictList,     \* userCache.evictList, front first: entries [key, oid]
  listLen,       \* userCache.evictList.len
  items,         \* userCache.items: key -> [oid, value]
  nextId,        \* the next value uuid.New() returns
  metricMap,     \* metricPublisher.metricMap
  opsProcessed,  \* myapp_processed_ops_total
  initialized,   \* metricPublisher.Initialize has run and the listener is up
  crashed,       \* the process died (panic or runtime fatal error)
  arrivals,      \* requests accepted so far
  rq,            \* per slot: the request being served and its fiber.Ctx
  origId,        \* history: key -> identity generated when the key was inserted
  recency,       \* history: the keys, most recently resolved (hit or insert) first
  lastId,        \* history: key -> identity its most recent resolve returned
  resolves,      \* history: number of resolves that have returned
  completed      \* history: <<method, path>> of a handler route -> admitted
                 \*          requests to it that have completed

vars == <<cacheSizeStr, evictList, listLen, items, nextId, metricMap,
          opsProcessed, initialized, crashed, arrivals, rq, origId,
          recency, lastId, resolves, completed>>

cacheVars == <<evictList, listLen, items, nextId, origId, recency, lastId, resolves>>
metricVars == <<metricMap, opsProcessed, completed>>
bootVars == <<cacheSizeStr, initialized>>

\* main's cacheSize
cacheSize == CacheSizeOf(cacheSizeStr)

\* simplelru.NewLRU returns (nil, error) for size <= 0; main drops the error
userCacheNil == cacheSize <= 0

\* the zero value of string
NoId == 0

IdleReq ==
  [pc |-> "idle", seq |-> 0, method |-> << >>, path |-> << >>, ip |-> "", rid |-> 0,
   locals |-> EmptyMap, userId |-> NoId, lenRead |-> 0, via |-> "", dup |-> FALSE,
   events |-> << >>, status |-> 0, body |-> "", headers |-> {}]

Ev(op, arg) == [op |-> op, arg |-> arg]

Init ==
  /\ cacheSizeStr \in CacheSizeEnv
  /\ evictList = << >>
  /\ listLen = 0
  /\ items = EmptyMap
  /\ nextId = 1
  /\ metricMap = EmptyMap
  /\ opsProcessed = 0
  /\ initialized = FALSE
  /\ crashed = FALSE
  /\ arrivals = 0
  /\ rq = [r \in Reqs |-> IdleReq]
  /\ origId = EmptyMap
  /\ recency = << >>
  /\ lastId = [k \in IPs |-> NoId]
  /\ resolves = 0
  /\ completed = [k \in HandlerRoutes |-> 0]

(* ------------------------------------------------------------------ *)
(* Startup                                                              *)
(* ------------------------------------------------------------------ *)

\* metricPublisher.Initialize(app), then app.Listen
Initialize ==
  /\ ~initialized /\ ~crashed
  /\ IF DuplicateRegistration
       THEN crashed' = TRUE /\ UNCHANGED <<metricMap, initialized>>
       ELSE /\ metricMap' = InitializeLoop(metricMap, 1)
            /\ initialized' = TRUE
            /\ UNCHANGED crashed
  /\ UNCHANGED <<cacheSizeStr, arrivals, rq, opsProcessed, completed>>
  /\ UNCHANGED cacheVars

(* ------------------------------------------------------------------ *)
(* The handlers, as functions of the request's context q                *)
(* ------------------------------------------------------------------ *)

\* c.Locals(key).(T) without the comma-ok form panics on a missing value
HasLocal(q, key) == key \in DOMAIN q.locals

\* a panic in a handler: nothing recovers it
Panic(q) == [q EXCEPT !.pc = "panic"]

\* request.GetTracer(c)
GetTracer(q) == HasLocal(q, "tracer")

\* request.GetLogger(c)
GetLogger(q) == HasLocal(q, "logger")

\* app.Get("/metrics", ...): bound before every middleware, never calls Next
MetricsHandler(q) ==
  [q EXCEPT !.pc = "done", !.body = "metrics",
            !.events = Append(@, Ev("metricsHandler", ""))]

\* mutant: the payload is written and the chain goes on
LimitReachedMutNext(q) ==
  [q EXCEPT !.pc = "resolve", !.body = "rejection",
            !.locals = MapSet(MapSet(MapSet(@, "tracer", "trace"), "parentSpan", "rspan"),
                              "requestid", q.seq),
            !.events = Append(@, Ev("limitReached", "timeStamp+message"))]

\* LimitReached: the JSON payload; the chain ends here
LimitReached(q) ==
  [q EXCEPT !.pc = "done", !.body = "rejection",
            !.events = Append(@, Ev("limitReached", "timeStamp+message"))]

\* mutant: the tracer is not stored in the context
RootSpanStartMutNoTracer(q) ==
  [q EXCEPT !.locals = MapSet(@, "parentSpan", "rspan"),
            !.events = Append(@, Ev("start", "root"))]

\* the root-span middleware up to c.Next()
RootSpanStart(q) ==
  [q EXCEPT !.locals = MapSet(MapSet(@, "tracer", "trace"), "parentSpan", "rspan"),
            !.events = Append(@, Ev("start", "root"))]

\* requestid.New(): generate the id, set the response header and the local
RequestID(q) ==
  [q EXCEPT !.rid = q.seq,
            !.locals = MapSet(@, "requestid", q.seq),
            !.headers = @ \cup {"X-Request-ID"}]

\* resolveUser before the cache is read: GetTracer and the span
ResolveStart(q) ==
  IF GetTracer(q) THEN [q EXCEPT !.events = Append(@, Ev("start", "resolveUser"))]
  ELSE Panic(q)

\* c.Locals("userId", userId); userSpan.Finish(); return c.Next()
ResolveReturn(q, id) ==
  [q EXCEPT !.pc = "logger", !.userId = id,
            !.locals = MapSet(@, "userId", id),
            !.events = Append(@, Ev("finish", "resolveUser"))]

\* the logging middleware up to c.Next()
LoggerBefore(q) ==
  IF GetTracer(q) /\ HasLocal(q, "requestid") /\ HasLocal(q, "userId")
    THEN [q EXCEPT !.locals = MapSet(@, "logger", "logger"),
                   !.events = @ \o
                     << Ev("start", "createLogger"), Ev("finish", "createLogger"),
                        Ev("start", "infoLog"), Ev("log", "Request Started"),
                        Ev("finish", "infoLog") >>]
    ELSE Panic(q)

\* the span-tag middleware up to c.Next()
TagBefore(q) ==
  IF HasLocal(q, "parentSpan") /\ HasLocal(q, "userId") /\ HasLocal(q, "requestid")
    THEN [q EXCEPT !.events = @ \o
                     << Ev("tag", "userId"), Ev("tag", "requestId"),
                        Ev("tag", "method"), Ev("tag", "path") >>]
    ELSE Panic(q)

\* mutant: health.Finish() is called before the response is marshalled
HealthHandlerMutEarlyFinish(q) ==
  IF GetTracer(q) /\ GetLogger(q)
    THEN [q EXCEPT !.body = "health", !.status = 200,
            !.events = @ \o
              << Ev("handler", "health"), Ev("start", "health"),
                 Ev("start", "get-logger"), Ev("log", "Creating health check response"),
                 Ev("finish", "get-logger"),
                 Ev("start", "marshal-json"), Ev("finish", "health"),
                 Ev("finish", "marshal-json"), Ev("return", "nil") >>]
    ELSE Panic(q)

\* app.Get("/health", ...)
HealthHandler(q) ==
  IF GetTracer(q) /\ GetLogger(q)
    THEN [q EXCEPT !.body = "health", !.status = 200,
            !.events = @ \o
              << Ev("handler", "health"), Ev("start", "health"),
                 Ev("start", "get-logger"), Ev("log", "Creating health check response"),
                 Ev("finish", "get-logger"),
                 Ev("start", "marshal-json"), Ev("finish", "marshal-json"),
                 Ev("finish", "health"), Ev("return", "nil") >>]
    ELSE Panic(q)

\* no handler route matches: c.Next() returns the router's error
NoRoute(q) ==
  [q EXCEPT !.events = @ \o << Ev("noRoute", ""), Ev("return", "error") >>]

\* c.Next() of the span-tag middleware: the router's next match
Handler(q) ==
  IF MatchesRoute(q.method, q.path, PathHealth) THEN HealthHandler(q) ELSE NoRoute(q)

\* the span-tag middleware after c.Next(): the error is dropped, nil returned
TagAfter(q) == [q EXCEPT !.events = Append(@, Ev("tag", "status"))]

\* mutant: the status is tagged before c.Next()
TagMiddlewareMutEarly(q) ==
  LET a == TagBefore(q) IN
    IF a.pc = "panic" THEN a ELSE Handler(TagAfter(a))

\* the span-tag middleware
TagMiddleware(q) ==
  LET a == TagBefore(q) IN
    IF a.pc = "panic" THEN a
    ELSE LET b == Handler(a) IN IF b.pc = "panic" THEN b ELSE TagAfter(b)

\* what the logging middleware does after c.Next(), in order
AfterNextEvents ==
  << Ev("opsInc", ""), Ev("publish", "counter"), Ev("publish", "durationMs"),
     Ev("publish", "durationMicro"), Ev("log", "Request Completed") >>

\* the three publish calls of the logging middleware
PublishAll(mm, method, path) ==
  PublishHistogram(
    PublishHistogram(
      PublishCounter(mm, HttpRequestCountMetricName, method, path),
      HttpRequestDurationMetricName, method, path),
    HttpRequestDurationMicroMetricName, method, path)

\* mutant: the logging middleware returns the error of c.Next() at once
LoggerAfterNextMutReturn(q) ==
  IF \E i \in 1..Len(q.events) : q.events[i] = Ev("return", "error")
    THEN [q EXCEPT !.pc = "rootAfter"]
    ELSE [q EXCEPT !.pc = "rootAfter", !.events = @ \o AfterNextEvents]

\* the logging middleware after c.Next(): the value c.Next() returned is
\* dropped, so the same calls follow a handler's nil and a router's error
LoggerAfterNext(q) == [q EXCEPT !.pc = "rootAfter", !.events = @ \o AfterNextEvents]

\* the root-span middleware after c.Next()
RootSpanAfter(q) == [q EXCEPT !.pc = "done", !.events = Append(@, Ev("finish", "root"))]

(* ------------------------------------------------------------------ *)
(* Router, limiter and the chain down to resolveUser                    *)
(* ------------------------------------------------------------------ *)

Serving == initialized /\ ~crashed

\* a connection delivers request in to slot r; the router picks the first
\* matching route
Accept(r, in) ==
  /\ rq' = [rq EXCEPT ![r] =
              [IdleReq EXCEPT !.seq = arrivals + 1, !.method = in.method,
                 !.path = in.path, !.ip = in.ip, !.status = 200,
                 !.pc = IF MatchesRoute(in.method, in.path, PathMetrics)
                          THEN "metrics" ELSE "limiter"]]
  /\ arrivals' = arrivals + 1
  /\ UNCHANGED <<bootVars, crashed>>
  /\ UNCHANGED cacheVars
  /\ UNCHANGED metricVars

\* requests of one client arrive while others are being served
Arrive(r) ==
  /\ Serving
  /\ rq[r].pc = "idle"
  /\ \A o \in Reqs : o < r => rq[o].pc # "idle"
  /\ arrivals < MaxArrivals
  /\ \E in \in RouteInputs : Accept(r, in)

\* requests of several clients arrive while others are being served
ArriveClients(r) ==
  /\ Serving
  /\ rq[r].pc = "idle"
  /\ \A o \in Reqs : o < r => rq[o].pc # "idle"
  /\ arrivals < MaxClientArrivals
  /\ \E in \in ClientInputs : Accept(r, in)

\* requests arrive one at a time, each after the previous response
ArriveSeq(r) ==
  /\ Serving
  /\ \A o \in Reqs : rq[o].pc = "idle"
  /\ \A o \in Reqs : o >= r
  /\ arrivals < MaxSeqArrivals
  /\ \E in \in Inputs : Accept(r, in)

\* requests of every method and path arrive one at a time
ArriveKeys(r) ==
  /\ Serving
  /\ \A o \in Reqs : rq[o].pc = "idle"
  /\ \A o \in Reqs : o >= r
  /\ arrivals < MaxKeyArrivals
  /\ \E in \in KeyInputs : Accept(r, in)

MetricsRoute(r) ==
  /\ Serving
  /\ rq[r].pc = "metrics"
  /\ rq' = [rq EXCEPT ![r] = MetricsHandler(rq[r])]
  /\ UNCHANGED <<bootVars, crashed, arrivals>>
  /\ UNCHANGED cacheVars
  /\ UNCHANGED metricVars

\* c.Next() of the limiter: root-span middleware, requestid, then resolveUser
ChainToResolve(q) == [RequestID(RootSpanStart(q)) EXCEPT !.pc = "resolve"]

\* limiter.New(...): the sliding-window decision is the limiter's own
Limiter(r) ==
  /\ Serving
  /\ rq[r].pc = "limiter"
  /\ \E admit \in BOOLEAN :
       rq' = [rq EXCEPT ![r] = IF admit THEN ChainToResolve(rq[r])
                                        ELSE LimitReached(rq[r])]
  /\ UNCHANGED <<bootVars, crashed, arrivals>>
  /\ UNCHANGED cacheVars
  /\ UNCHANGED metricVars

(* ------------------------------------------------------------------ *)
(* resolveUser and the unsynchronised simplelru cache                   *)
(* ------------------------------------------------------------------ *)

\* between userCache.Contains and the end of the request's last cache call
InCache(r) == rq[r].pc \in {"cacheGet", "cacheAdd", "cacheAddLen", "cacheAddEvict"}

\* inside userCache.Add
InAdd(r) == rq[r].pc \in {"cacheAdd", "cacheAddLen", "cacheAddEvict"}

\* evictList.MoveToFront(ent): no effect on an entry that left the list
MoveToFront(list, oid) ==
  IF \E i \in 1..Len(list) : list[i].oid = oid
    THEN LET i == CHOOSE j \in 1..Len(list) : list[j].oid = oid IN
           <<list[i]>> \o SubSeq(list, 1, i - 1) \o SubSeq(list, i + 1, Len(list))
    ELSE list

\* history: key k was resolved (hit or insert) just now
Touch(rec, k) == <<k>> \o SelectSeq(rec, LAMBDA x : x # k)

\* GetTracer, start of the resolveUser span, userCache.Contains(ip): a nil
\* userCache is dereferenced, and the panic ends the process
ResolveContains(r) ==
  /\ Serving
  /\ rq[r].pc = "resolve"
  /\ LET q == ResolveStart(rq[r])
         hit == rq[r].ip \in DOMAIN items
     IN IF q.pc = "panic" \/ userCacheNil
          THEN crashed' = TRUE /\ rq' = [rq EXCEPT ![r] = Panic(q)]
          ELSE /\ rq' = [rq EXCEPT ![r] =
                           [q EXCEPT !.pc = IF hit THEN "cacheGet" ELSE "cacheAdd",
                                     !.via = IF hit THEN "get" ELSE "add",
                                     !.dup = ~hit /\ \E o \in Reqs \ {r} :
                                                InAdd(o) /\ rq[o].ip = rq[r].ip]]
               /\ UNCHANGED crashed
  /\ UNCHANGED <<bootVars, arrivals>>
  /\ UNCHANGED cacheVars
  /\ UNCHANGED metricVars

\* history kept when a resolve returns id for key ip
Resolved(ip, id) ==
  /\ lastId' = [lastId EXCEPT ![ip] = id]
  /\ resolves' = resolves + 1

\* userId, _ = userCache.Get(ip): the zero value when the key is gone
CacheGet(r) ==
  /\ Serving
  /\ rq[r].pc = "cacheGet"
  /\ LET ip == rq[r].ip
         found == ip \in DOMAIN items
         id == IF found THEN items[ip].value ELSE NoId
     IN /\ evictList' = IF found THEN MoveToFront(evictList, items[ip].oid) ELSE evictList
        /\ recency' = IF found THEN Touch(recency, ip) ELSE recency
        /\ rq' = [rq EXCEPT ![r] = ResolveReturn(rq[r], id)]
        /\ Resolved(ip, id)
  /\ UNCHANGED <<bootVars, crashed, arrivals>>
  /\ UNCHANGED <<listLen, items, nextId, origId>>
  /\ UNCHANGED metricVars

\* userId = uuid.New().String(); userCache.Add(ip, userId) up to the load of
\* evictList.len in PushFront (or all of Add when the key is present)
CacheAdd(r) ==
  /\ Serving
  /\ rq[r].pc = "cacheAdd"
  /\ LET ip == rq[r].ip
         id == nextId
     IN /\ nextId' = nextId + 1
        /\ recency' = Touch(recency, ip)
        /\ IF ip \in DOMAIN items
             THEN /\ evictList' = MoveToFront(evictList, items[ip].oid)
                  /\ items' = [items EXCEPT ![ip].value = id]
                  /\ rq' = [rq EXCEPT ![r] = ResolveReturn(rq[r], id)]
                  /\ Resolved(ip, id)
             ELSE /\ evictList' = <<[key |-> ip, oid |-> id]>> \o evictList
                  /\ rq' = [rq EXCEPT ![r].pc = "cacheAddLen", ![r].userId = id,
                                      ![r].lenRead = listLen]
                  /\ UNCHANGED <<items, lastId, resolves>>
  /\ UNCHANGED <<bootVars, crashed, arrivals>>
  /\ UNCHANGED <<listLen, origId>>
  /\ UNCHANGED metricVars

\* the store of evictList.len in PushFront, then c.items[key] = ent
CacheAddLen(r) ==
  /\ Serving
  /\ rq[r].pc = "cacheAddLen"
  /\ LET ip == rq[r].ip
         id == rq[r].userId
     IN /\ listLen' = rq[r].lenRead + 1
        /\ items' = MapSet(items, ip, [oid |-> id, value |-> id])
        /\ origId' = IF ip \in DOMAIN items THEN origId ELSE MapSet(origId, ip, id)
  /\ rq' = [rq EXCEPT ![r].pc = "cacheAddEvict", ![r].lenRead = 0]
  /\ UNCHANGED <<bootVars, crashed, arrivals>>
  /\ UNCHANGED <<evictList, nextId, recency, lastId, resolves>>
  /\ UNCHANGED metricVars

\* evict := c.evictList.Length() > c.size
Evict == listLen > cacheSize

\* mutant: removeOldest takes the front (newest) entry
BackMutFront(list) == 1

\* evictList.Back(): the position of the entry removeOldest removes
Back(list) == Len(list)

\* evictList.Remove(ent) for the entry at position i
Remove(list, i) == SubSeq(list, 1, i - 1) \o SubSeq(list, i + 1, Len(list))

\* if evict { c.removeOldest() }, the end of Add, and the rest of resolveUser
CacheAddEvict(r) ==
  /\ Serving
  /\ rq[r].pc = "cacheAddEvict"
  /\ IF Evict /\ evictList # << >>
       THEN LET ent == evictList[Back(evictList)] IN
              /\ evictList' = Remove(evictList, Back(evictList))
              /\ listLen' = listLen - 1
              /\ items' = MapDelete(items, ent.key)
              /\ origId' = MapDelete(origId, ent.key)
       ELSE UNCHANGED <<evictList, listLen, items, origId>>
  /\ rq' = [rq EXCEPT ![r] = ResolveReturn(rq[r], rq[r].userId)]
  /\ Resolved(rq[r].ip, rq[r].userId)
  /\ UNCHANGED <<bootVars, crashed, arrivals>>
  /\ UNCHANGED <<nextId, recency>>
  /\ UNCHANGED metricVars

\* a request about to write userCache.items
MapWriter(r) ==
  \/ rq[r].pc = "cacheAddLen"
  \/ rq[r].pc = "cacheAddEvict" /\ Evict /\ evictList # << >>

\* a request about to read or write userCache.items
MapUser(r) == rq[r].pc = "resolve" \/ InCache(r)

\* the Go runtime detects a map write concurrent with another access of the
\* map and ends the process ("fatal error: concurrent map ...")
RaceFatal ==
  /\ Serving
  /\ ~userCacheNil
  /\ \E w \in Reqs, o \in Reqs : w # o /\ MapWriter(w) /\ MapUser(o)
  /\ crashed' = TRUE
  /\ UNCHANGED <<bootVars, arrivals, rq>>
  /\ UNCHANGED cacheVars
  /\ UNCHANGED metricVars

(* ------------------------------------------------------------------ *)
(* Logging/metrics middleware and what it wraps                         *)
(* ------------------------------------------------------------------ *)

\* c.Next() of resolveUser: the logging middleware up to the return of its
\* own c.Next() (span-tag middleware and route handler)
Downstream(r) ==
  /\ Serving
  /\ rq[r].pc = "logger"
  /\ LET a == LoggerBefore(rq[r])
         b == IF a.pc = "panic" THEN a ELSE TagMiddleware(a)
     IN IF b.pc = "panic"
          THEN crashed' = TRUE /\ rq' = [rq EXCEPT ![r] = b]
          ELSE rq' = [rq EXCEPT ![r] = [b EXCEPT !.pc = "loggerAfter"]] /\ UNCHANGED crashed
  /\ UNCHANGED <<bootVars, arrivals>>
  /\ UNCHANGED cacheVars
  /\ UNCHANGED metricVars

\* the logging middleware after c.Next()
LoggerAfter(r) ==
  /\ Serving
  /\ rq[r].pc = "loggerAfter"
  /\ opsProcessed' = opsProcessed + 1
  /\ metricMap' = PublishAll(metricMap, rq[r].method, rq[r].path)
  /\ rq' = [rq EXCEPT ![r] = LoggerAfterNext(rq[r])]
  /\ UNCHANGED <<bootVars, crashed, arrivals, completed>>
  /\ UNCHANGED cacheVars

\* the root-span middleware after c.Next(): rspan.Finish(); the response is sent
RootSpanFinish(r) ==
  /\ Serving
  /\ rq[r].pc = "rootAfter"
  /\ rq' = [rq EXCEPT ![r] = RootSpanAfter(rq[r])]
  /\ completed' = IF <<rq[r].method, rq[r].path>> \in DOMAIN completed
                    THEN [completed EXCEPT ![<<rq[r].method, rq[r].path>>] = @ + 1]
                    ELSE completed
  /\ UNCHANGED <<bootVars, crashed, arrivals, metricMap, opsProcessed>>
  /\ UNCHANGED cacheVars

\* the connection's goroutine is free for the next request
Release(r) ==
  /\ Serving
  /\ rq[r].pc = "done"
  /\ rq' = [rq EXCEPT ![r] = IdleReq]
  /\ UNCHANGED <<bootVars, crashed, arrivals>>
  /\ UNCHANGED cacheVars
  /\ UNCHANGED metricVars

(* ------------------------------------------------------------------ *)
(* Specifications                                                       *)
(* ------------------------------------------------------------------ *)

\* what a request does in the middleware chain
ChainStep(r) ==
  \/ Limiter(r)
  \/ ResolveContains(r)
  \/ CacheGet(r)
  \/ CacheAdd(r)
  \/ CacheAddLen(r)
  \/ CacheAddEvict(r)
  \/ Downstream(r)
  \/ LoggerAfter(r)
  \/ RootSpanFinish(r)
  \/ Release(r)

\* what a request does once accepted
Step(r) == MetricsRoute(r) \/ ChainStep(r)

Next ==
  \/ Initialize
  \/ RaceFatal
  \/ \E r \in Reqs : Arrive(r) \/ Step(r)

\* requests of one client, served concurrently
Spec == Init /\ [][Next]_vars

NextCache ==
  \/ Initialize
  \/ RaceFatal
  \/ \E r \in Reqs : ArriveClients(r) \/ ChainStep(r)

\* /health requests of several clients, served concurrently
SpecCache == Init /\ [][NextCache]_vars

NextSeq ==
  \/ Initialize
  \/ \E r \in Reqs : ArriveSeq(r) \/ Step(r)

\* requests served one after the other
SpecSeq == Init /\ [][NextSeq]_vars

NextKeys ==
  \/ Initialize
  \/ \E r \in Reqs : ArriveKeys(r) \/ Step(r)

\* requests of every method and path, served one after the other
SpecKeys == Init /\ [][NextKeys]_vars

(* ------------------------------------------------------------------ *)
(* Identity cache: claims C1 - C5                                       *)
(* ------------------------------------------------------------------ *)

\* the request's resolve returns in this step
ResolveReturns(r) ==
  /\ rq[r].pc \in {"cacheGet", "cacheAdd", "cacheAddEvict"}
  /\ rq'[r].pc = "logger"

\* C1: whenever no request is inside userCache.Add, the cache holds at most
\* cacheSize entries.
C1_SizeWithinCapacity ==
  (~userCacheNil /\ \A r \in Reqs : ~InAdd(r))
    => Cardinality(DOMAIN items) <= cacheSize

\* C2: a resolve of a key that is resident before and after it returns the
\* identity generated when the key was inserted.
C2_StableWhileResident ==
  [][\A r \in Reqs :
       (ResolveReturns(r) /\ rq[r].ip \in DOMAIN origId /\ rq[r].ip \in DOMAIN origId')
         => rq'[r].userId = origId'[rq[r].ip]]_vars

\* the first three resolves were of A, B, C in that order, each a miss
ResolvedABC ==
  /\ cacheSize = 2
  /\ resolves = 3
  /\ lastId = [k \in IPs |-> IF k = IpA THEN 1 ELSE IF k = IpB THEN 2 ELSE 3]

\* C3: with capacity 2, after resolving A, B, C in that order on an empty
\* cache A is evicted (seen whenever no later resolve is inside Add) and B
\* and C are resident with their identities; the next resolve gives A a new
\* identity, or B or C its original one.
C3_EvictsOldest ==
  [][ResolvedABC =>
       /\ (\A r \in Reqs : ~InAdd(r)) => IpA \notin DOMAIN items
       /\ IpB \in DOMAIN items /\ items[IpB].value = 2
       /\ IpC \in DOMAIN items /\ items[IpC].value = 3
       /\ \A r \in Reqs : ResolveReturns(r) =>
            /\ rq[r].ip = IpA => rq'[r].userId \notin {NoId, 1, 2, 3}
            /\ rq[r].ip = IpB => rq'[r].userId = 2
            /\ rq[r].ip = IpC => rq'[r].userId = 3]_vars

\* C3 witness: A, B, C were resolved in order and A was then resolved again
C3_Witness ==
  /\ cacheSize = 2
  /\ resolves = 4
  /\ lastId = [k \in IPs |-> IF k = IpA THEN 4 ELSE IF k = IpB THEN 2 ELSE 3]

\* the resident keys, most recently resolved first
ResidentRecency == SelectSeq(recency, LAMBDA k : k \in DOMAIN items)

\* C4: a key leaves the cache only as the least recently resolved of the
\* resident keys.
C4_EvictsLeastRecent ==
  [][\A k \in DOMAIN items \ DOMAIN items' :
       /\ ResidentRecency # << >>
       /\ k = ResidentRecency[Len(ResidentRecency)]]_vars

\* C5: two requests that resolved the same non-resident key concurrently
\* hold the same identity.
C5_OneIdentityPerKey ==
  \A r1, r2 \in Reqs :
    ( /\ r1 # r2
      /\ rq[r1].ip = rq[r2].ip
      /\ rq[r1].via = "add" /\ rq[r2].via = "add"
      /\ rq[r1].dup \/ rq[r2].dup
      /\ rq[r1].pc \in {"logger", "loggerAfter", "rootAfter", "done"}
      /\ rq[r2].pc \in {"logger", "loggerAfter", "rootAfter", "done"} )
    => rq[r1].userId = rq[r2].userId

(* ------------------------------------------------------------------ *)
(* Metrics registry: claims C6, C7                                      *)
(* ------------------------------------------------------------------ *)

\* the keys the three publish calls of a request compute
PublishKeys(q) ==
  { Sprintf2(prefix, GetMetricName(q.method, q.path)) :
      prefix \in { HttpRequestCountMetricName, HttpRequestDurationMetricName,
                   HttpRequestDurationMicroMetricName } }

\* request r runs its publish calls in this step
Publishes(r) == rq[r].pc = "loggerAfter" /\ rq'[r].pc = "rootAfter"

\* C6: once Initialize has run the key set of the registry is fixed; a
\* request's publish calls change no metric but those of its own keys, so a
\* publish of an unregistered key changes nothing, and they end no process.
C6_KeysFixed ==
  [][initialized =>
       /\ DOMAIN metricMap' = DOMAIN metricMap
       /\ \A r \in Reqs : Publishes(r) =>
            /\ ~crashed'
            /\ \A k \in DOMAIN metricMap :
                 k \notin PublishKeys(rq[r]) => metricMap'[k] = metricMap[k]]_vars

\* C6 witness: a request whose three keys are all unregistered has published
C6_Witness ==
  \E r \in Reqs :
    /\ rq[r].pc = "rootAfter"
    /\ PublishKeys(rq[r]) \cap DOMAIN metricMap = {}

\* the per-route counter and millisecond histogram of route <<method, path>>
RouteCounter(route) ==
  metricMap[Sprintf2(HttpRequestCountMetricName, GetMetricName(route[1], route[2]))].n

RouteHistogram(route) ==
  metricMap[Sprintf2(HttpRequestDurationMetricName, GetMetricName(route[1], route[2]))].n

\* no admitted request is between admission and completion
NoneInFlight ==
  \A r \in Reqs : rq[r].pc \in {"idle", "metrics", "limiter", "done"}

\* C7: when no admitted request is in flight, the counter and the duration
\* histogram of every handler route read the number of admitted requests to
\* that route that have completed.
C7_CounterIsCompleted ==
  (initialized /\ NoneInFlight) =>
     \A route \in HandlerRoutes :
       /\ RouteCounter(route) = completed[route]
       /\ RouteHistogram(route) = completed[route]

(* ------------------------------------------------------------------ *)
(* Completion order: claims C8 - C10                                    *)
(* ------------------------------------------------------------------ *)

Has(evs, e) == \E i \in 1..Len(evs) : evs[i] = e

Idx(evs, e) == CHOOSE i \in 1..Len(evs) : evs[i] = e

\* whichever of a and b happened: b only after a
Then(evs, a, b) == Has(evs, b) => (Has(evs, a) /\ Idx(evs, a) < Idx(evs, b))

\* the route handler, or the router's error when no handler matches
Invoked(evs) ==
  IF Has(evs, Ev("handler", "health")) THEN Ev("handler", "health") ELSE Ev("noRoute", "")

\* c.Next() of the span-tag middleware returned
Returned(evs) ==
  IF Has(evs, Ev("return", "nil")) THEN Ev("return", "nil") ELSE Ev("return", "error")

\* the request was admitted and its response is complete
AdmittedDone(q) == q.pc = "done" /\ Has(q.events, Ev("start", "root"))

\* the events of seq happened in the order of seq
InOrder(evs, seq) == \A i \in 1..(Len(seq) - 1) : Then(evs, seq[i], seq[i + 1])

C9_AlwaysRecorded ==
  \A r \in Reqs :
    LET evs == rq[r].events IN
      /\ Then(evs, Returned(evs), Ev("opsInc", ""))
      /\ Then(evs, Returned(evs), Ev("publish", "counter"))
      /\ Then(evs, Returned(evs), Ev("log", "Request Completed"))
      /\ (rq[r].pc \in {"rootAfter", "done"} /\ Has(evs, Ev("log", "Request Started"))) =>
           /\ Has(evs, Ev("opsInc", ""))
           /\ Has(evs, Ev("publish", "counter"))
           /\ Has(evs, Ev("publish", "durationMs"))
           /\ Has(evs, Ev("publish", "durationMicro"))
           /\ Has(evs, Ev("log", "Request Completed"))

\* C9 witness: a request whose c.Next() returned an error is complete
C9_Witness ==
  \E r \in Reqs :
    /\ rq[r].pc = "done"
    /\ Has(rq[r].events, Ev("return", "error"))
    /\ Has(rq[r].events, Ev("log", "Request Completed"))

\* C10: a rejected request has its payload and nothing else: its chain is
\* over, no handler ran, and the step that rejects it changes no counter and
\* no metric.
C10_RejectSkipsAll ==
  [][\A r \in Reqs : rq'[r].body = "rejection" =>
       /\ rq'[r].pc = "done"
       /\ rq'[r].events = << Ev("limitReached", "timeStamp+message") >>
       /\ rq[r].body # "rejection" =>
            (opsProcessed' = opsProcessed /\ metricMap' = metricMap)]_vars

\* C10 witness: a request was rejected
C10_Witness == \E r \in Reqs : rq[r].body = "rejection" /\ rq[r].pc = "done"

(* ------------------------------------------------------------------ *)
(* Response headers, spans, startup, histograms: claims C11 - C14       *)
(* ------------------------------------------------------------------ *)

\* C11: every response, whatever the route and whether the request was
\* admitted or rejected, carries the request-id header.
C11_EveryResponseHasRequestId ==
  \A r \in Reqs : rq[r].pc = "done" => "X-Request-ID" \in rq[r].headers

\* the span events of evs finish only the innermost unfinished span, given
\* the stack of unfinished spans (innermost first)
RECURSIVE Nested(_, _)
Nested(evs, stack) ==
  IF evs = << >> THEN TRUE
  ELSE LET e == Head(evs) IN
         IF e.op = "start" THEN Nested(Tail(evs), <<e.arg>> \o stack)
         ELSE IF e.op = "finish"
           THEN stack # << >> /\ Head(stack) = e.arg /\ Nested(Tail(evs), Tail(stack))
           ELSE Nested(Tail(evs), stack)

\* how often evs holds e
Count(evs, e) == Cardinality({i \in 1..Len(evs) : evs[i] = e})

\* the names of the spans evs starts
Started(evs) == {evs[i].arg : i \in {j \in 1..Len(evs) : evs[j].op = "start"}}

\* C12: within each request a finished span is the most recently started
\* span of the request that is still unfinished, and no span is finished
\* more than once.
C12_SpansNested ==
  \A r \in Reqs :
    /\ Nested(rq[r].events, << >>)
    /\ \A n \in Started(rq[r].events) : Count(rq[r].events, Ev("finish", n)) <= 1

\* C12 witness: a /health request has finished its seven spans
C12_Witness ==
  \E r \in Reqs :
    /\ rq[r].pc = "done"
    /\ Started(rq[r].events) =
         {"root", "resolveUser", "createLogger", "infoLog", "health", "get-logger",
          "marshal-json"}
    /\ \A n \in Started(rq[r].events) : Has(rq[r].events, Ev("finish", n))

\* s is the decimal form of an integer
Parsable(s) ==
  \/ AllDigits(s)
  \/ s # << >> /\ Head(s) \in {"-", "+"} /\ AllDigits(Tail(s))

\* C13: with a configured capacity that is non-positive or no integer the
\* process never serves requests.
C13_RejectsBadCapacity ==
  (cacheSizeStr # << >> /\ (~Parsable(cacheSizeStr) \/ ParseInt(cacheSizeStr) <= 0))
    => ~initialized

\* the histograms of a request's route
MsKey(q) == Sprintf2(HttpRequestDurationMetricName, GetMetricName(q.method, q.path))

MicroKey(q) == Sprintf2(HttpRequestDurationMicroMetricName, GetMetricName(q.method, q.path))

\* the step records one observation in the histogram key
Observed(key) ==
  /\ key \in DOMAIN metricMap
  /\ metricMap[key].kind = "histogram"
  /\ metricMap'[key].n = metricMap[key].n + 1

\* C14: the completion of an admitted request to a registered route records
\* one observation in the route's millisecond histogram and one in its
\* microsecond histogram.
C14_BothHistograms ==
  [][\A r \in Reqs :
       (Publishes(r) /\ <<rq[r].method, rq[r].path>> \in HandlerRoutes) =>
          (Observed(MsKey(rq[r])) /\ Observed(MicroKey(rq[r])))]_vars

(* ------------------------------------------------------------------ *)
(* Metric keys: claim C16                                               *)
(* ------------------------------------------------------------------ *)

\* the routes registered with the request's method and path
RoutesOf(q) ==
  {i \in 1..Len(Routes) : Routes[i].Method = q.method /\ Routes[i].Path = q.path}

\* C16: the key derived from a request's method and path holds only letters
\* and underscores, is left unchanged by a second normalisation, and equals
\* the key Initialize derived for the route of that method and path, whose
\* counter and histogram are therefore found at publish time.
C16_KeysNormalised ==
  \A r \in Reqs : rq[r].pc # "idle" =>
    LET k == GetMetricName(rq[r].method, rq[r].path) IN
      /\ \A i \in 1..Len(k) : k[i] \in Letters \cup {"_"}
      /\ ReplaceAllString(k) = k
      /\ \A i \in RoutesOf(rq[r]) :
           /\ k = RoutePostfix(i)
           /\ initialized =>
                /\ Sprintf2(HttpRequestCountMetricName, k) \in DOMAIN metricMap
                /\ Sprintf2(HttpRequestDurationMetricName, k) \in DOMAIN metricMap

\* C16 witness: a request to a registered route has published and its
\* counter has counted; its path holds a character the key does not
C16_Witness ==
  \E r \in Reqs :
    /\ rq[r].pc = "rootAfter"
    /\ RoutesOf(rq[r]) # {}
    /\ Len(GetMetricName(rq[r].method, rq[r].path)) < Len(rq[r].method) + 1 + Len(rq[r].path)
    /\ metricMap[Sprintf2(HttpRequestCountMetricName,
                          GetMetricName(rq[r].method, rq[r].path))].n >= 1

(* ------------------------------------------------------------------ *)
(* Span lifetime, context values, registration: claims C17 - C20        *)
(* ------------------------------------------------------------------ *)

\* every span evs starts is finished exactly once in evs
AllFinished(evs) == \A n \in Started(evs) : Count(evs, Ev("finish", n)) = 1

\* C17: when the processing of a request has ended, by its response or by
\* a panic, every span it started has been finished exactly once.
C17_SpansFinished ==
  \A r \in Reqs : rq[r].pc \in {"done", "panic"} => AllFinished(rq[r].events)

\* the request has passed the root-span and requestid middleware
PastRequestID(q) ==
  q.pc \in {"resolve", "cacheGet", "cacheAdd", "cacheAddLen", "cacheAddEvict",
            "logger", "loggerAfter", "rootAfter"}

\* the request has passed resolveUser
PastResolve(q) == q.pc \in {"logger", "loggerAfter", "rootAfter"}

\* the request has passed the logging middleware's first half
PastLogger(q) == q.pc \in {"loggerAfter", "rootAfter"}

\* C18: a stage that reads tracer, parentSpan, requestid, userId or logger
\* finds it stored by an earlier stage of the request: no stage has run
\* without its values, and no request was aborted for a missing value.
C18_ValuesStored ==
  \A r \in Reqs :
    LET q == rq[r]
        has(k) == k \in DOMAIN q.locals
    IN /\ PastRequestID(q) => (has("tracer") /\ has("parentSpan") /\ has("requestid"))
       /\ PastResolve(q) => has("userId")
       /\ PastLogger(q) => has("logger")
       /\ Has(q.events, Ev("start", "resolveUser")) => has("tracer")
       /\ Has(q.events, Ev("start", "createLogger")) =>
            (has("tracer") /\ has("requestid") /\ has("userId"))
       /\ Has(q.events, Ev("tag", "userId")) =>
            (has("parentSpan") /\ has("userId") /\ has("requestid"))
       /\ Has(q.events, Ev("handler", "health")) => (has("tracer") /\ has("logger"))
       /\ q.pc = "panic" => (has("tracer") /\ userCacheNil)

\* C18 witness: a /health request has run every stage with the five values
C18_Witness ==
  \E r \in Reqs :
    /\ rq[r].pc = "rootAfter"
    /\ Has(rq[r].events, Ev("handler", "health"))
    /\ {"tracer", "parentSpan", "requestid", "userId", "logger"} \subseteq DOMAIN rq[r].locals

\* the counter and histogram keys of route i
CounterKey(i) == Sprintf2(HttpRequestCountMetricName, RoutePostfix(i))

HistogramKey(i) == Sprintf2(HttpRequestDurationMetricName, RoutePostfix(i))

\* C19: Initialize completes, no two registered routes share a normalised
\* key, and every route has a counter and a histogram of its own.
C19_OwnMetrics ==
  /\ crashed => initialized
  /\ \A i, j \in 1..Len(Routes) : i # j => RoutePostfix(i) # RoutePostfix(j)
  /\ initialized =>
       /\ \A i \in 1..Len(Routes) :
            /\ CounterKey(i) \in DOMAIN metricMap
            /\ metricMap[CounterKey(i)].kind = "counter"
            /\ HistogramKey(i) \in DOMAIN metricMap
            /\ metricMap[HistogramKey(i)].kind = "histogram"
       /\ Cardinality(DOMAIN metricMap) = 2 * Len(Routes)

\* C19 witness: the registry is filled and a route's counter has counted
C19_Witness ==
  /\ initialized
  /\ Cardinality(DOMAIN metricMap) = 2 * Len(Routes)
  /\ \E i \in 1..Len(Routes) : metricMap[CounterKey(i)].n >= 1

\* C20: the identity a request holds after the resolve stage is a
\* generated one, never the empty string.
C20_IdentityNotEmpty ==
  \A r \in Reqs :
    (rq[r].pc \in {"logger", "loggerAfter", "rootAfter", "done"}
       /\ "userId" \in DOMAIN rq[r].locals) => rq[r].userId # NoId

====
